---------------------------- MODULE Spec2Model ----------------------------
(***************************************************************************)
(* A model of analysis_app.py: one run of the analysis on an uploaded      *)
(* dataset.  The script is a straight-line pipeline; pc is its position.   *)
(*                                                                         *)
(*   validate -> counts -> percentages -> crosstab -> overall_test         *)
(*            -> object_tests (one step per object label) -> consistency   *)
(*            -> done                                                      *)
(*                                                                         *)
(* st.stop() and the outer "except Exception" end the run: pc = "halted".  *)
(* Floating point values are modelled as exact fractions [n, d]; d = 0     *)
(* encodes the IEEE results of a division by zero (nan, +inf, -inf).       *)
(***************************************************************************)
EXTENDS Integers, Sequences, FiniteSets

\* Largest number of data rows of an uploaded file.
MaxRows == 3

\* A missing value (pandas NaN) in a cell of the dataset.
Null == "NaN"

AllColumns == {"selected_color_space", "object", "user_id", "repeat"}

\* Values a cell can hold, each listed in lexicographic order, the order in
\* which groupby() sorts its keys.
ObjectOrder == <<"apple", "banana">>
FormatOrder == <<"CMYK", "RGB">>
UserOrder == <<"P1">>

Range(s) == {s[i] : i \in 1..Len(s)}

Objects == Range(ObjectOrder)
Formats == Range(FormatOrder)
Users == Range(UserOrder)

VARIABLES
    columns,            \* data.columns: the column names of the file
    data,               \* the rows of the file (a cell of an absent column is Null)
    pc,                 \* position in the script
    halted_at,          \* the position at which the run was stopped, or "none"
    error,              \* what st.error reported
    color_counts,       \* FrequencyTable
    color_percentages,  \* percentage table
    object_color,       \* ContingencyTable
    overall,            \* outcome of the overall test
    object_results,     \* outcomes of the per-object tests, in visiting order
    user_objects,       \* consistency records
    consistency_rate    \* overall consistency rate

vars == <<columns, data, pc, halted_at, error, color_counts, color_percentages,
          object_color, overall, object_results, user_objects, consistency_rate>>

None == [kind |-> "none"]

-----------------------------------------------------------------------------
(* Fractions.  [n, d] with d > 0 is n/d; d = 0 is nan (n = 0) or +-inf.    *)

Frac(n, d) == [n |-> n, d |-> d]
FInt(n) == Frac(n, 1)
FNaN == Frac(0, 0)

Sign(i) == IF i > 0 THEN 1 ELSE IF i < 0 THEN -1 ELSE 0

IsNaN(x) == x.d = 0 /\ x.n = 0
IsFinite(x) == x.d > 0

\* x / y as numpy divides floats: x/0 is nan for x = 0 and +-inf otherwise.
FDiv(x, y) ==
    IF IsNaN(x) \/ IsNaN(y) THEN FNaN
    ELSE IF x.d = 0 /\ y.d = 0 THEN FNaN
    ELSE IF x.d = 0 THEN Frac(Sign(x.n) * (IF y.n < 0 THEN -1 ELSE 1), 0)
    ELSE IF y.d = 0 THEN Frac(0, 1)
    ELSE IF y.n = 0 THEN Frac(Sign(x.n), 0)
    ELSE Frac(x.n * y.d * Sign(y.n), x.d * y.n * Sign(y.n))

FMul(x, y) ==
    IF IsNaN(x) \/ IsNaN(y) THEN FNaN
    ELSE IF x.d = 0 \/ y.d = 0
         THEN (IF x.n = 0 \/ y.n = 0 THEN FNaN ELSE Frac(Sign(x.n) * Sign(y.n), 0))
    ELSE Frac(x.n * y.n, x.d * y.d)

FSub(x, y) ==
    IF IsNaN(x) \/ IsNaN(y) THEN FNaN
    ELSE IF x.d = 0 /\ y.d = 0 THEN (IF x.n = y.n THEN FNaN ELSE x)
    ELSE IF x.d = 0 THEN x
    ELSE IF y.d = 0 THEN Frac(-y.n, 0)
    ELSE Frac(x.n * y.d - y.n * x.d, x.d * y.d)

FAdd(x, y) == FSub(x, Frac(-y.n, y.d))

\* x < y; every comparison with nan is false.
FLess(x, y) ==
    IF IsNaN(x) \/ IsNaN(y) THEN FALSE
    ELSE IF x.d = 0 /\ y.d = 0 THEN x.n < y.n
    ELSE IF x.d = 0 THEN x.n < 0
    ELSE IF y.d = 0 THEN y.n > 0
    ELSE x.n * y.d < y.n * x.d

FEq(x, y) == IsFinite(x) /\ IsFinite(y) /\ x.n * y.d = y.n * x.d
IsZero(x) == IsFinite(x) /\ x.n = 0

\* Python's max(a, b) and min(a, b): the first argument unless the second
\* is strictly larger (smaller).
PyMax(a, b) == IF FLess(a, b) THEN b ELSE a
PyMin(a, b) == IF FLess(b, a) THEN b ELSE a

-----------------------------------------------------------------------------
(* Sequences.                                                              *)

RECURSIVE SumSeq(_)
SumSeq(s) == IF s = <<>> THEN 0 ELSE Head(s) + SumSeq(Tail(s))

\* The members of `present`, in the order of `order`.
Sorted(order, present) == SelectSeq(order, LAMBDA x : x \in present)

Column(rows, col) == [i \in 1..Len(rows) |-> rows[i][col]]

-----------------------------------------------------------------------------
(* The uploaded file.                                                      *)

CellValues(col) ==
    IF col = "object" THEN Objects \cup {Null}
    ELSE IF col = "selected_color_space" THEN Formats \cup {Null}
    ELSE Users \cup {Null}

\* The rows a file with the columns cols can hold.  The trial index `repeat`
\* is never read by the script, so only its presence is modelled.
RowsOf(cols) ==
    [object : IF "object" \in cols THEN CellValues("object") ELSE {Null},
     selected_color_space :
        IF "selected_color_space" \in cols
        THEN CellValues("selected_color_space") ELSE {Null},
     user_id : IF "user_id" \in cols THEN CellValues("user_id") ELSE {Null}]

Datasets(cols) ==
    UNION {[1..n -> RowsOf(cols)] : n \in 0..MaxRows}

Init ==
    /\ columns \in SUBSET AllColumns
    /\ data \in Datasets(columns)
    /\ pc = "validate"
    /\ halted_at = "none"
    /\ error = None
    /\ color_counts = None
    /\ color_percentages = None
    /\ object_color = None
    /\ overall = None
    /\ object_results = <<>>
    /\ user_objects = None
    /\ consistency_rate = None

Inputs == <<columns, data>>
Outputs == <<color_counts, color_percentages, object_color, overall,
             object_results, user_objects, consistency_rate>>

-----------------------------------------------------------------------------
(* Schema Validator.                                                       *)

required_columns == <<"selected_color_space", "object">>

\* A validator that reports only the first absent column.
first_missing_column(cols) ==
    LET absent == SelectSeq(required_columns, LAMBDA c : c \notin cols)
    IN  IF absent = <<>> THEN <<>> ELSE <<Head(absent)>>

\* [col for col in required_columns if col not in data.columns]
missing_columns(cols) == SelectSeq(required_columns, LAMBDA c : c \notin cols)

Validate ==
    /\ pc = "validate"
    /\ IF missing_columns(columns) # <<>>
       THEN /\ error' = [kind |-> "missing_columns",
                         names |-> missing_columns(columns)]
            /\ pc' = "halted"
            /\ halted_at' = "validate"
       ELSE /\ pc' = "counts"
            /\ UNCHANGED <<error, halted_at>>
    /\ UNCHANGED <<Inputs, Outputs>>

-----------------------------------------------------------------------------
(* Charts.  The chart calls (barplot, pie, heatmap) assign nothing the     *)
(* analysis reads.  Given a table with no cells they draw an empty chart   *)
(* or raise, depending on the installed plotting library; an exception     *)
(* reaches the outer handler, which reports it and stops the run.          *)

ChartOutcomes(empty) == IF empty THEN {"drawn", "raised"} ELSE {"drawn"}

\* The outer handler: st.error(...); st.stop()
Continue(chart, at, next) ==
    IF chart = "raised"
    THEN /\ error' = [kind |-> "exception", names |-> <<>>]
         /\ pc' = "halted"
         /\ halted_at' = at
    ELSE /\ pc' = next
         /\ UNCHANGED <<error, halted_at>>

-----------------------------------------------------------------------------
(* Frequency Aggregator.                                                   *)

NonNull(col) == SelectSeq(col, LAMBDA v : v # Null)

Occurrences(col, x) == Cardinality({i \in 1..Len(col) : col[i] = x})

FirstPos(col, x) == CHOOSE i \in 1..Len(col) :
                        col[i] = x /\ \A j \in 1..(i - 1) : col[j] # x

\* Labels by descending count, equal counts in order of first appearance.
RECURSIVE ByCount(_, _)
ByCount(labels, col) ==
    IF labels = {} THEN <<>>
    ELSE LET first == CHOOSE x \in labels : \A y \in labels \ {x} :
                        \/ Occurrences(col, x) > Occurrences(col, y)
                        \/ /\ Occurrences(col, x) = Occurrences(col, y)
                           /\ FirstPos(col, x) < FirstPos(col, y)
         IN  <<first>> \o ByCount(labels \ {first}, col)

\* Series.value_counts(): missing values are dropped.
value_counts(col) ==
    LET index == ByCount(Range(NonNull(col)), col)
    IN  [kind |-> "table",
         index |-> index,
         values |-> [i \in 1..Len(index) |-> Occurrences(col, index[i])]]

Counts ==
    /\ pc = "counts"
    /\ color_counts' = value_counts(Column(data, "selected_color_space"))
    /\ \E chart \in ChartOutcomes(color_counts'.index = <<>>) :
          Continue(chart, "counts", "percentages")
    /\ UNCHANGED <<Inputs, color_percentages, object_color, overall,
                   object_results, user_objects, consistency_rate>>

\* color_counts / color_counts.sum() * 100, element by element.
Percentage(counts) ==
    [kind |-> "table",
     index |-> counts.index,
     values |-> [i \in 1..Len(counts.values) |->
                    FMul(FDiv(FInt(counts.values[i]), FInt(SumSeq(counts.values))),
                         FInt(100))]]

Percentages ==
    /\ pc = "percentages"
    /\ color_percentages' = Percentage(color_counts)
    /\ \E chart \in ChartOutcomes(color_counts.index = <<>>) :
          Continue(chart, "percentages", "crosstab")
    /\ UNCHANGED <<Inputs, color_counts, object_color, overall,
                   object_results, user_objects, consistency_rate>>

-----------------------------------------------------------------------------
(* Cross-Tabulator.                                                        *)

\* A cross-tabulation that marks the pairs that occur instead of counting
\* their rows.
GroupOccurs(rows) ==
    LET keyed == SelectSeq(rows, LAMBDA r : r.object # Null
                                            /\ r.selected_color_space # Null)
    IN  [key \in {<<keyed[i].object, keyed[i].selected_color_space>> :
                    i \in 1..Len(keyed)} |-> 1]

\* groupby(['object', 'selected_color_space']).size(): one entry per key
\* pair that occurs; rows with a missing key are dropped.
GroupSize(rows) ==
    LET keyed == SelectSeq(rows, LAMBDA r : r.object # Null
                                            /\ r.selected_color_space # Null)
        keys == {<<keyed[i].object, keyed[i].selected_color_space>> :
                    i \in 1..Len(keyed)}
    IN  [key \in keys |->
            Cardinality({i \in 1..Len(keyed) :
                <<keyed[i].object, keyed[i].selected_color_space>> = key})]

\* An unstack that leaves out the pairs with no entry.
UnstackSparse(sizes, fill_value) ==
    LET objs == {key[1] : key \in DOMAIN sizes}
        fmts == {key[2] : key \in DOMAIN sizes}
    IN  [kind |-> "table",
         index |-> Sorted(ObjectOrder, objs),
         columns |-> Sorted(FormatOrder, fmts),
         cells |-> [o \in objs |->
                      [f \in {g \in fmts : <<o, g>> \in DOMAIN sizes} |->
                          sizes[<<o, f>>]]]]

\* .unstack(fill_value): the inner key level becomes the columns; a pair
\* with no entry gets fill_value.
Unstack(sizes, fill_value) ==
    LET objs == {key[1] : key \in DOMAIN sizes}
        fmts == {key[2] : key \in DOMAIN sizes}
    IN  [kind |-> "table",
         index |-> Sorted(ObjectOrder, objs),
         columns |-> Sorted(FormatOrder, fmts),
         cells |-> [o \in objs |-> [f \in fmts |->
                      IF <<o, f>> \in DOMAIN sizes THEN sizes[<<o, f>>]
                      ELSE fill_value]]]

CrossTab ==
    /\ pc = "crosstab"
    /\ object_color' = Unstack(GroupSize(data), 0)
    /\ \E chart \in ChartOutcomes(object_color'.index = <<>>) :
          Continue(chart, "crosstab", "overall_test")
    /\ UNCHANGED <<Inputs, color_counts, color_percentages, overall,
                   object_results, user_objects, consistency_rate>>

-----------------------------------------------------------------------------
(* Association Tester.  An observed table is a sequence of rows.           *)

Shape(observed) == <<Len(observed), Len(observed[1])>>

RowSum(observed, i) == SumSeq(observed[i])
ColSum(observed, j) == SumSeq([i \in 1..Len(observed) |-> observed[i][j]])
Total(observed) == SumSeq([i \in 1..Len(observed) |-> RowSum(observed, i)])

\* Expected frequencies of a uniform null: each row's total spread evenly
\* over its columns.
uniform_expected(observed) ==
    [i \in 1..Len(observed) |-> [j \in 1..Len(observed[1]) |->
        FDiv(FInt(RowSum(observed, i)), FInt(Len(observed[1])))]]

\* scipy.stats.contingency.expected_freq: the product of the row and the
\* column marginal over the total.
expected_freq(observed) ==
    LET total == Total(observed)
    IN  [i \in 1..Len(observed) |-> [j \in 1..Len(observed[1]) |->
            FDiv(FInt(RowSum(observed, i) * ColSum(observed, j)), FInt(total))]]

\* expected.size - sum(expected.shape) + expected.ndim - 1
DegreesOfFreedom(observed) ==
    LET r == Shape(observed)[1]
        k == Shape(observed)[2]
    IN  r * k - (r + k) + 2 - 1

Abs(x) == IF FLess(x, FInt(0)) THEN FSub(FInt(0), x) ELSE x

\* Yates' correction (dof = 1): each observed count moves towards its
\* expected frequency by at most 1/2.
Corrected(obs, exp, dof) ==
    IF dof # 1 THEN obs
    ELSE LET diff == FSub(exp, obs)
             step == PyMin(Frac(1, 2), Abs(diff))
         IN  IF FLess(diff, FInt(0)) THEN FSub(obs, step) ELSE FAdd(obs, step)

RECURSIVE FSum(_)
FSum(s) == IF s = <<>> THEN FInt(0) ELSE FAdd(Head(s), FSum(Tail(s)))

\* Pearson's statistic: the sum of (observed - expected)^2 / expected.
Pearson(observed, expected, dof) ==
    FSum([c \in 1..(Len(observed) * Len(observed[1])) |->
        LET i == ((c - 1) \div Len(observed[1])) + 1
            j == ((c - 1) % Len(observed[1])) + 1
            d == FSub(Corrected(FInt(observed[i][j]), expected[i][j], dof),
                      expected[i][j])
        IN  FDiv(FMul(d, d), expected[i][j])])

\* scipy.stats.chi2_contingency(observed).  The p-value of a table with no
\* degree of freedom is 1.0; otherwise it is the survival function of the
\* chi-squared distribution, kept symbolic.
chi2_contingency(observed) ==
    LET expected == expected_freq(observed)
        dof == DegreesOfFreedom(observed)
        stat == IF dof = 0 THEN FInt(0) ELSE Pearson(observed, expected, dof)
    IN  IF \E i \in 1..Len(observed) : \E j \in 1..Len(observed[i]) : observed[i][j] < 0
        THEN [kind |-> "raised", reason |-> "negative value"]
        ELSE IF Len(observed) * Len(observed[1]) = 0
        THEN [kind |-> "raised", reason |-> "no data"]
        ELSE IF \E i \in 1..Len(observed) : \E j \in 1..Len(observed[1]) :
                    IsZero(expected[i][j])
        THEN [kind |-> "raised", reason |-> "zero expected frequency"]
        ELSE [kind |-> "result", chi2 |-> stat,
              p |-> IF dof = 0 THEN [kind |-> "exact", value |-> FInt(1)]
                    ELSE [kind |-> "sf", chi2 |-> stat, dof |-> dof],
              dof |-> dof, expected |-> expected]

\* The 0.95 quantiles of the chi-squared distribution: sf(x, dof) < 0.05
\* exactly when x is above the quantile.
Quantile95 == <<Frac(3841459, 1000000), Frac(5991465, 1000000),
                Frac(7814728, 1000000)>>

\* p_value < 0.05
Significant(p) ==
    IF p.kind = "exact" THEN FLess(p.value, Frac(5, 100))
    ELSE FLess(Quantile95[p.dof], p.chi2)

\* cramers_v(confusion_matrix): the value returned is the square root of
\* the fraction given here; a nan is returned as 0.0.
cramers_v(confusion_matrix) ==
    LET chi2 == chi2_contingency(confusion_matrix).chi2
        n == FInt(Total(confusion_matrix))
        phi2 == FDiv(chi2, n)
        r == Shape(confusion_matrix)[1]
        k == Shape(confusion_matrix)[2]
        n1 == FSub(n, FInt(1))
        phi2corr == PyMax(FInt(0), FSub(phi2, FDiv(FInt((k - 1) * (r - 1)), n1)))
        rcorr == FSub(FInt(r), FDiv(FInt((r - 1) * (r - 1)), n1))
        kcorr == FSub(FInt(k), FDiv(FInt((k - 1) * (k - 1)), n1))
        v2 == FDiv(phi2corr, PyMin(FSub(kcorr, FInt(1)), FSub(rcorr, FInt(1))))
    IN  IF IsNaN(v2) \/ FLess(v2, FInt(0)) THEN FInt(0) ELSE v2

\* One test: the statistic, the p-value, the effect size and the flag, or
\* the exception raised on the way.
RunTest(observed) ==
    LET t == chi2_contingency(observed)
    IN  IF t.kind = "raised" THEN t
        ELSE [kind |-> "test", observed |-> observed, chi2 |-> t.chi2,
              p_value |-> t.p, dof |-> t.dof, expected |-> t.expected,
              cramer_v_value |-> cramers_v(observed),
              significant |-> Significant(t.p)]

\* len(color_counts) > 1 and color_counts.sum() > 0
OverallPrecondition(counts) ==
    Len(counts.values) > 1 /\ SumSeq(counts.values) > 0

\* A loop that an object's outcome ends: nothing is visited after the first.
AfterFirstObject(table, visited) ==
    IF visited = 0 /\ Len(table.index) > 0 THEN "object_tests" ELSE "consistency"

\* Where the script goes once `visited` object labels have been tested.
AfterObjects(table, visited) ==
    IF visited < Len(table.index) THEN "object_tests" ELSE "consistency"

OverallTest ==
    /\ pc = "overall_test"
    /\ \E t \in {IF OverallPrecondition(color_counts)
                 THEN RunTest(<<color_counts.values>>)
                 ELSE [kind |-> "insufficient"]} :
           IF t.kind = "raised"
           THEN /\ error' = [kind |-> "exception", names |-> <<>>]
                /\ pc' = "halted"
                /\ halted_at' = "overall_test"
                /\ UNCHANGED overall
           ELSE /\ overall' = t
                /\ pc' = AfterObjects(object_color, 0)
                /\ UNCHANGED <<error, halted_at>>
    /\ UNCHANGED <<Inputs, color_counts, color_percentages, object_color,
                   object_results, user_objects, consistency_rate>>

\* object_color.loc[[obj]].values: the one-row table of an object.
RowOf(table, obj) ==
    <<[j \in 1..Len(table.columns) |-> table.cells[obj][table.columns[j]]]>>

\* The precondition without the demand that every cell be positive.
ObjectPreconditionAnyCell(obs) ==
    /\ Shape(obs)[2] > 1
    /\ Total(obs) > 0

\* obs.shape[1] > 1 and total > 0 and (obs > 0).all()
ObjectPrecondition(obs) ==
    /\ Shape(obs)[2] > 1
    /\ Total(obs) > 0
    /\ \A i \in 1..Len(obs) : \A j \in 1..Len(obs[i]) : obs[i][j] > 0

\* The body of the loop: the test inside try/except, or the else branch.
ObjectOutcome(obs) ==
    IF ObjectPrecondition(obs)
    THEN LET t == RunTest(obs)
         IN  IF t.kind = "raised"
             THEN [kind |-> "not_valid", reason |-> t.reason]
             ELSE t
    ELSE [kind |-> "insufficient"]

\* for obj in object_color.index: the label visited after `visited` labels.
NextObject(table, visited) == table.index[visited + 1]

ObjectTest ==
    /\ pc = "object_tests"
    /\ LET obj == NextObject(object_color, Len(object_results))
       IN  object_results' = Append(object_results,
                [obj |-> obj, outcome |-> ObjectOutcome(RowOf(object_color, obj))])
    /\ pc' = AfterObjects(object_color, Len(object_results'))
    /\ UNCHANGED <<Inputs, halted_at, error, color_counts, color_percentages,
                   object_color, overall, user_objects, consistency_rate>>

-----------------------------------------------------------------------------
(* Consistency Analyzer.                                                   *)

\* A gate on the participant column alone.
ParticipantColumnOnly(cols) == "user_id" \in cols

\* 'user_id' in data.columns and 'repeat' in data.columns
ConsistencyAvailable(cols) == "user_id" \in cols /\ "repeat" \in cols

\* (user_id, object) keys in the order groupby() sorts them.
KeyOrder ==
    [c \in 1..(Len(UserOrder) * Len(ObjectOrder)) |->
        <<UserOrder[((c - 1) \div Len(ObjectOrder)) + 1],
          ObjectOrder[((c - 1) % Len(ObjectOrder)) + 1]>>]

\* read_csv gives a column with no value at all the dtype float64, whose
\* missing values come out of the Series as separate nan objects; in any
\* other column every missing value is the one object numpy.nan.
FreshNaN(col) == \A i \in 1..Len(col) : col[i] = Null

\* len(x) in place of len(set(x)).
ListLen(x, fresh) == Len(x)

\* len(set(x)): a nan equals only itself.
DistinctLen(x, fresh) ==
    Cardinality(Range(NonNull(x)))
    + (IF fresh THEN Len(x) - Len(NonNull(x))
       ELSE IF Len(NonNull(x)) < Len(x) THEN 1 ELSE 0)

\* groupby(['user_id', 'object'])['selected_color_space'].agg(list), then
\* the `consistent` column.
GroupLists(rows) ==
    LET keyed == SelectSeq(rows, LAMBDA r : r.user_id # Null /\ r.object # Null)
        keys == Sorted(KeyOrder, {<<keyed[i].user_id, keyed[i].object>> :
                                    i \in 1..Len(keyed)})
        fresh == FreshNaN(Column(rows, "selected_color_space"))
    IN  [g \in 1..Len(keys) |->
            LET x == Column(SelectSeq(keyed,
                        LAMBDA r : <<r.user_id, r.object>> = keys[g]),
                        "selected_color_space")
            IN  [user_id |-> keys[g][1], object |-> keys[g][2],
                 selected_color_space |-> x,
                 consistent |-> DistinctLen(x, fresh) = 1]]

\* user_objects['consistent'].mean() * 100; the mean of no value is nan.
Rate(records) ==
    FMul(FDiv(FInt(Cardinality({i \in 1..Len(records) : records[i].consistent})),
              FInt(Len(records))),
         FInt(100))

Consistency ==
    /\ pc = "consistency"
    /\ IF ConsistencyAvailable(columns)
       THEN /\ user_objects' = [kind |-> "table", records |-> GroupLists(data)]
            /\ consistency_rate' = [kind |-> "rate",
                                    value |-> Rate(user_objects'.records)]
            /\ \E chart \in ChartOutcomes(user_objects'.records = <<>>) :
                  Continue(chart, "consistency", "done")
       ELSE /\ user_objects' = [kind |-> "skipped"]
            /\ consistency_rate' = [kind |-> "skipped"]
            /\ pc' = "done"
            /\ UNCHANGED <<error, halted_at>>
    /\ UNCHANGED <<Inputs, color_counts, color_percentages, object_color,
                   overall, object_results>>

Next ==
    \/ Validate
    \/ Counts
    \/ Percentages
    \/ CrossTab
    \/ OverallTest
    \/ ObjectTest
    \/ Consistency

Spec == Init /\ [][Next]_vars

-----------------------------------------------------------------------------
(* What the claims speak of.                                               *)

\* The number of data rows whose cells are in the given sets.
Rows(objects, formats, users) ==
    Cardinality({i \in 1..Len(data) :
        /\ data[i].object \in objects
        /\ data[i].selected_color_space \in formats
        /\ data[i].user_id \in users})

AnyObject == Objects \cup {Null}
AnyFormat == Formats \cup {Null}
AnyUser == Users \cup {Null}

\* The tests the run has made: the overall one and the per-object ones.
Tests ==
    (IF overall.kind = "test" THEN {overall} ELSE {})
    \cup {object_results[i].outcome : i \in {j \in 1..Len(object_results) :
                                    object_results[j].outcome.kind = "test"}}

NoOutput ==
    /\ color_counts = None /\ color_percentages = None /\ object_color = None
    /\ overall = None /\ object_results = <<>>
    /\ user_objects = None /\ consistency_rate = None

-----------------------------------------------------------------------------
\* C1: a dataset that lacks a mandatory column is stopped at validation with
\* an error that names every absent mandatory column, and no frequency
\* table, contingency table, test or consistency result is ever produced.
C1_MissingColumnsHalt ==
    (pc # "validate" /\ ~(Range(required_columns) \subseteq columns)) =>
        /\ pc = "halted" /\ halted_at = "validate"
        /\ error.kind = "missing_columns"
        /\ Range(error.names) = Range(required_columns) \ columns
        /\ NoOutput

C1_Witness ==
    /\ pc = "halted"
    /\ error.kind = "missing_columns"
    /\ Len(error.names) = 2
    /\ Len(data) > 0

-----------------------------------------------------------------------------
\* The Cross-Tabulator has just built the table (no later step assigns it).
TableBuilt == pc = "overall_test" \/ halted_at = "crosstab"

RowTotal(table, o) == SumSeq([j \in 1..Len(table.columns) |->
                                table.cells[o][table.columns[j]]])
GrandTotal(table) == SumSeq([i \in 1..Len(table.index) |->
                                RowTotal(table, table.index[i])])

C2_RowSums ==
    \A o \in Range(object_color.index) :
        RowTotal(object_color, o)
            = Rows({o}, Formats, AnyUser)

C2_FrequencyTotal ==
    SumSeq(color_counts.values) = Rows(AnyObject, Formats, AnyUser)

\* C2 as claimed: in the table the Cross-Tabulator built, the row sums are
\* the per-object selections and the grand total is the grand total of the
\* FrequencyTable.
C2_Original ==
    TableBuilt =>
        /\ C2_RowSums
        /\ C2_FrequencyTotal
        /\ GrandTotal(object_color) = SumSeq(color_counts.values)

\* C2 as amended: in the table the Cross-Tabulator built, the row sums are
\* the per-object selections; the grand total counts the rows with both an
\* object and a selection, so it is the FrequencyTable's total exactly when
\* no selection lacks its object.
C2_Totals ==
    TableBuilt =>
        LET grand == GrandTotal(object_color)
            selections == SumSeq(color_counts.values)
        IN  /\ C2_RowSums
            /\ selections = Rows(AnyObject, Formats, AnyUser)
            /\ grand = Rows(Objects, Formats, AnyUser)
            /\ grand <= selections
            /\ grand = selections <=> Rows({Null}, Formats, AnyUser) = 0

C2_Witness ==
    /\ TableBuilt
    /\ GrandTotal(object_color) > 0
    /\ GrandTotal(object_color) < SumSeq(color_counts.values)
    /\ \E o \in Range(object_color.index) : RowTotal(object_color, o) > 1

-----------------------------------------------------------------------------
\* C3: the ContingencyTable the Cross-Tabulator built is a complete
\* rectangle: every pair of an object label and a format label has a cell
\* holding a natural number, which is 0 exactly when no row of the dataset
\* has that pair.
C3_CompleteRectangle ==
    TableBuilt =>
        \A o \in Range(object_color.index) :
            \A f \in Range(object_color.columns) :
                /\ o \in DOMAIN object_color.cells
                /\ f \in DOMAIN object_color.cells[o]
                /\ object_color.cells[o][f] \in Nat
                /\ object_color.cells[o][f] = 0
                    <=> Rows({o}, {f}, AnyUser) = 0

C3_Witness ==
    /\ TableBuilt
    /\ Len(object_color.index) = 2
    /\ \E o \in Range(object_color.index) :
          \E f \in Range(object_color.columns) : object_color.cells[o][f] = 0

-----------------------------------------------------------------------------
Attempted(result) == result.outcome.kind \in {"test", "not_valid"}

\* C4: an object's test is attempted exactly when its row has more than one
\* format column, a non-zero total and only strictly positive cells; any
\* other object is reported as insufficient data / zero counts.
C4_TestIffAllPositive ==
    \A i \in 1..Len(object_results) :
        LET o == object_results[i].obj
            testable ==
                /\ Len(object_color.columns) > 1
                /\ RowTotal(object_color, o) > 0
                /\ \A f \in Range(object_color.columns) :
                        object_color.cells[o][f] > 0
        IN  /\ Attempted(object_results[i]) <=> testable
            /\ ~testable <=> object_results[i].outcome.kind = "insufficient"

C4_Witness ==
    /\ Len(object_results) = 2
    /\ object_results[1].outcome.kind = "test"
    /\ object_results[2].outcome.kind = "insufficient"
    /\ Len(object_color.columns) = 2
    /\ RowTotal(object_color, object_results[2].obj) > 0

-----------------------------------------------------------------------------
\* C5: the overall test comes first; the object labels are then visited
\* once each in the table's label order, each getting one outcome; no
\* outcome of an object stops the run, so every label has been visited when
\* the consistency analysis starts.
C5_EveryObjectOnce ==
    /\ object_results # <<>> => overall # None
    /\ pc \in {"object_tests", "consistency", "done"} => overall # None
    /\ object_color.kind = "table" =>
        /\ Len(object_results) <= Len(object_color.index)
        /\ \A i \in 1..Len(object_results) :
            /\ object_results[i].obj = object_color.index[i]
            /\ object_results[i].outcome.kind
                \in {"test", "insufficient", "not_valid"}
    /\ pc = "object_tests" => Len(object_results) < Len(object_color.index)
    /\ halted_at # "object_tests"
    /\ (pc \in {"consistency", "done"} \/ halted_at = "consistency") =>
        Len(object_results) = Len(object_color.index)

C5_Witness ==
    /\ pc = "done"
    /\ Len(object_results) = 2
    /\ object_results[1].outcome.kind = "insufficient"
    /\ object_results[2].outcome.kind = "test"
    /\ user_objects.kind = "table"

-----------------------------------------------------------------------------
GroupKeys == {<<data[i].user_id, data[i].object>> :
                i \in {j \in 1..Len(data) : data[j].user_id # Null
                                            /\ data[j].object # Null}}

C6_OneRecordPerGroup ==
    /\ Len(user_objects.records) = Cardinality(GroupKeys)
    /\ {<<g.user_id, g.object>> : g \in Range(user_objects.records)} = GroupKeys
    /\ \A g \in Range(user_objects.records) :
          Len(g.selected_color_space)
            = Rows({g.object}, AnyFormat, {g.user_id})

AllSame(x) == \A i, j \in 1..Len(x) : x[i] = x[j]

C6_RateIs(records) ==
    /\ FEq(consistency_rate.value,
           Frac(100 * Cardinality({i \in 1..Len(records) : records[i].consistent}),
                Len(records)))
    /\ ~FLess(consistency_rate.value, FInt(0))
    /\ ~FLess(FInt(100), consistency_rate.value)
    /\ FEq(consistency_rate.value, FInt(100))
        <=> \A g \in Range(records) :
                Cardinality(Range(g.selected_color_space)) = 1

\* C6 as claimed: one record per (participant, object) group, consistent
\* exactly when all its selections are the same; the rate is
\* 100 x consistent / total, within [0, 100], and 100 exactly when every
\* group has one distinct selection.
C6_Original ==
    user_objects.kind = "table" =>
        /\ C6_OneRecordPerGroup
        /\ \A g \in Range(user_objects.records) :
              g.consistent <=> AllSame(g.selected_color_space)
        /\ C6_RateIs(user_objects.records)

\* C6 as amended: one record per group; a record is consistent exactly when
\* its selections are all the same value and, if the whole selection column
\* is missing, there is only one of them; with at least one group the rate
\* is 100 x consistent / total, within [0, 100], and 100 exactly when every
\* record is consistent; with no group the rate is nan.
C6_Consistency ==
    user_objects.kind = "table" =>
        /\ C6_OneRecordPerGroup
        /\ \A g \in Range(user_objects.records) :
              g.consistent <=>
                /\ AllSame(g.selected_color_space)
                /\ Len(g.selected_color_space) = 1
                   \/ \E r \in Range(data) : r.selected_color_space # Null
        /\ user_objects.records # <<>> =>
            /\ FEq(consistency_rate.value,
                   Frac(100 * Cardinality({i \in 1..Len(user_objects.records) :
                                            user_objects.records[i].consistent}),
                        Len(user_objects.records)))
            /\ ~FLess(consistency_rate.value, FInt(0))
            /\ ~FLess(FInt(100), consistency_rate.value)
            /\ FEq(consistency_rate.value, FInt(100))
                <=> \A g \in Range(user_objects.records) : g.consistent
        /\ user_objects.records = <<>> => IsNaN(consistency_rate.value)

C6_Witness ==
    /\ user_objects.kind = "table"
    /\ Len(user_objects.records) = 2
    /\ user_objects.records[1].consistent
    /\ ~user_objects.records[2].consistent
    /\ FEq(consistency_rate.value, FInt(50))

-----------------------------------------------------------------------------
ConsistencyOver == pc = "done" \/ halted_at = "consistency"

ConsistencyProduced ==
    user_objects.kind = "table" /\ consistency_rate.kind = "rate"

\* The results of the earlier steps are all there, as those steps left them.
OtherResultsIntact ==
    /\ error = None
    /\ color_counts = value_counts(Column(data, "selected_color_space"))
    /\ color_percentages = Percentage(color_counts)
    /\ object_color = Unstack(GroupSize(data), 0)
    /\ overall # None
    /\ Len(object_results) = Len(object_color.index)

\* C7 as claimed: the consistency analysis is made exactly when the dataset
\* has the column user_id, with or without the column repeat; when it is
\* skipped no error is raised and the other results stand.
C7_Original ==
    ConsistencyOver =>
        /\ ConsistencyProduced <=> "user_id" \in columns
        /\ ~ConsistencyProduced =>
            user_objects.kind = "skipped" /\ pc = "done" /\ OtherResultsIntact

\* C7 as amended: the consistency analysis is made exactly when the dataset
\* has both the column user_id and the column repeat; when it is skipped no
\* error is raised and the other results stand.
C7_GatedOnBothColumns ==
    ConsistencyOver =>
        /\ ConsistencyProduced
            <=> ("user_id" \in columns /\ "repeat" \in columns)
        /\ ~ConsistencyProduced =>
            /\ user_objects.kind = "skipped"
            /\ consistency_rate.kind = "skipped"
            /\ pc = "done"
            /\ OtherResultsIntact

C7_Witness ==
    /\ pc = "done"
    /\ "user_id" \in columns /\ "repeat" \notin columns
    /\ user_objects.kind = "skipped"
    /\ \E i \in 1..Len(data) : data[i].user_id # Null /\ data[i].object # Null

-----------------------------------------------------------------------------
\* C8: once the Frequency Aggregator is through with a dataset that has no
\* non-null selection, the percentage table is a "no data" signal, not the
\* result of the division; otherwise each percentage is count / total x 100.
C8_NoDataSignal ==
    (color_counts.kind = "table" /\ pc \notin {"percentages"}) =>
        IF SumSeq(color_counts.values) = 0
        THEN color_percentages.kind = "no_data"
        ELSE \A i \in 1..Len(color_counts.values) :
                FEq(color_percentages.values[i],
                    Frac(100 * color_counts.values[i],
                         SumSeq(color_counts.values)))

-----------------------------------------------------------------------------
\* C9: every test has (r-1)(k-1) degrees of freedom for its r x k observed
\* table, and k-1 for a single row of k categories.
C9_DegreesOfFreedom ==
    \A t \in Tests :
        LET r == Len(t.observed)
            k == Len(t.observed[1])
        IN  /\ t.dof = (r - 1) * (k - 1)
            /\ r = 1 => t.dof = k - 1

-----------------------------------------------------------------------------
\* What a test on a single-row table comes to.
Degenerate(t) ==
    t.kind = "test" =>
        /\ Len(t.observed) = 1
        /\ \A j \in 1..Len(t.observed[1]) :
              /\ t.observed[1][j] > 0
              /\ FEq(t.expected[1][j], FInt(t.observed[1][j]))
        /\ IsZero(t.chi2)
        /\ IsZero(t.cramer_v_value)
        /\ ~t.significant

=============================================================================
